---- MODULE Spec2Model ----
(***************************************************************************)
(* Ingestion path of the historical research assistant: the document      *)
(* registry (core/database.py), the batch accumulator                     *)
(* (components/batch_processor.py), the sync orchestrator                 *)
(* (components/document_sync.py), the uploader and the batched directory  *)
(* ingestion (core/vector_store.py), and the per-project cache of         *)
(* vector-index handles (core/vector_store.py, app.py,                    *)
(* components/state_manager.py).                                          *)
(*                                                                         *)
(* Five specifications share the variables:                               *)
(*   Spec        sync runs, uploads, folder changes, embed_directory_batched*)
(*   SpecSync    Spec without embed_directory_batched                     *)
(*   SpecBatch   one DocumentBatchProcessor driven by arbitrary calls     *)
(*   SpecHandles the handle cache driven by its callers and the app runs  *)
(*   SpecChunk   adaptive_chunk_documents on documents of any token count *)
(***************************************************************************)
EXTENDS Integers, Sequences, FiniteSets, TLC

\* ---------------------------------------------------------------- bounds
NumHashes == 2
NumPaths == 2
MaxBatch == 3
MaxChunks == 3
MaxAdds == 2
NumProjects == 2
MaxClients == 2
MaxTokens == 2100

\* ------------------------------------------------------ program constants
BATCH_SIZE == 12

Hashes == 1..NumHashes
Paths == 1..NumPaths
NoFile == 0
NoHash == 0
Projects == 1..NumProjects
NoClient == 0
\* the lock of a project's index is held by another process
OtherProcess == MaxClients + 1
\* st.session_state has no "last_selected_project" key yet
NoKey == 0
\* the selectbox shows "-- New Project --": render_sidebar returns None
NoneSelected == NumProjects + 1

\* ---------------------------------------------------------------- state
VARIABLES
    fs,               \* documents folder: path -> content hash of the file, NoFile if absent
    registry,         \* documents table: sequence of rows in insertion order
    index,            \* vector index: per content_hash tag, passage count of each successful write
    pc,               \* position of the running ingestion: idle, new, pending, final, edb, edb_final
    new_files,        \* sync_documents: scanned files unknown to the registry
    pending_docs,     \* sync_documents: rows listed as pending at the start of the run
    i,                \* loop index of the running loop
    errors,           \* sync_documents: the run's error list (kinds)
    processed_count,  \* sync_documents: processed_count
    bp,               \* the DocumentBatchProcessor of the run
    nAdds,            \* number of add_document calls made on bp
    txt_paths,        \* embed_directory_batched: files found
    staging_buffer,   \* embed_directory_batched: its local buffer
    uncommitted,      \* embed_directory_batched: hashes inserted and not yet committed
    handed,           \* history: hashes handed to the accumulator in the current/last run
    failedDocs,       \* history: hashes that had passages in a failed write of the current/last run
    wroteRun,         \* history: hashes written by a successful write of the current/last run
    lastRun,          \* history: kind and outcome of the last completed run
    fsChanged,        \* history: the folder changed since the last sync run started
    resync,           \* history: the latest sync run directly followed a sync run, the folder unchanged:
                      \*   "clean" after a run with no error, "missing" after one with only missing-file errors
    attempts,         \* history (SpecBatch): every write sent to the index, with its outcome
    returned,         \* history (SpecBatch): (hash, count) pairs returned by add/flush/finalize
    addedDocs,        \* history (SpecBatch): the (hash, count) of every add_document call, in order
    lastCall,         \* history (SpecBatch): the latest call and how it ended
    token_count,      \* adaptive_chunk_documents: tokens of the document it is given
    out_docs,         \* adaptive_chunk_documents: what it returned, NotChunked before the call
    config,           \* configuration of the run: BATCH_SIZE and the passages the chunker yields
                      \*   for each file content
    active_clients,   \* _active_clients: project -> cached handle, NoClient if none
    clients,          \* every QdrantClient object created: its project and whether it is open
    lockOwner,        \* who holds the lock on the current lock file of each project's index
    session_state,    \* st.session_state: last_selected_project, db_client, and a pending rerun
    lastOp            \* history: the latest step on the handle cache and what it did

worldVars == <<fs, registry, index>>
runVars == <<pc, new_files, pending_docs, i, errors, processed_count>>
edbVars == <<txt_paths, staging_buffer, uncommitted>>
syncHist == <<handed, failedDocs, wroteRun, lastRun, fsChanged, resync>>
batchHist == <<attempts, returned, addedDocs, lastCall>>
chunkVars == <<token_count, out_docs>>
handleVars == <<active_clients, clients, lockOwner, session_state, lastOp>>
ingestVars == <<worldVars, runVars, edbVars, syncHist, batchHist, bp, nAdds>>
vars == <<fs, registry, index, pc, new_files, pending_docs, i, errors, processed_count,
          bp, nAdds, txt_paths, staging_buffer, uncommitted,
          handed, failedDocs, wroteRun, lastRun, fsChanged, resync,
          attempts, returned, addedDocs, lastCall, token_count, out_docs, config,
          active_clients, clients, lockOwner, session_state, lastOp>>

\* ------------------------------------------------------------- helpers
Range(s) == {s[k] : k \in 1..Len(s)}

Reverse(s) == [k \in 1..Len(s) |-> s[Len(s) + 1 - k]]

RECURSIVE SumSeq(_)
SumSeq(s) == IF s = <<>> THEN 0 ELSE s[1] + SumSeq(Tail(s))

\* number of passages of a buffer tagged with hash h
CountTag(buf, h) == Cardinality({k \in 1..Len(buf) : buf[k].content_hash = h})

TagsOf(buf) == {buf[k].content_hash : k \in 1..Len(buf)}

\* permutations of a finite set, as sequences
Perms(S) == {s \in [1..Cardinality(S) -> S] : \A a, b \in 1..Cardinality(S) : a # b => s[a] # s[b]}

\* ------------------------------------------------ DocumentBatchProcessor
\* the chunks a caller passes to add_document: n untagged passages of document object d
Chunks(d, n) == [k \in 1..n |-> [doc |-> d, idx |-> k, content_hash |-> NoHash]]

DocumentBatchProcessor(batch_size) ==
    [batch_size |-> batch_size, staging_buffer |-> <<>>, batch_count |-> 0,
     document_chunk_counts |-> <<>>]

\* mutant: only the document of the first chunk of the buffer is reported
UpdatesOf_firstOnly(self) ==
    IF self.staging_buffer = <<>> THEN <<>>
    ELSE << <<self.staging_buffer[1].content_hash,
              self.document_chunk_counts[self.staging_buffer[1].content_hash]>> >>

\* the (hash, chunk_count) pair flush_batch reports for each chunk of the buffer
UpdatesOf(self) ==
    LET known == SelectSeq(self.staging_buffer,
                           LAMBDA c : c.content_hash # NoHash
                                      /\ c.content_hash \in DOMAIN self.document_chunk_counts)
    IN [k \in 1..Len(known) |->
            <<known[k].content_hash, self.document_chunk_counts[known[k].content_hash]>>]

\* mutant: a failed write is swallowed and the updates are returned all the same
flush_batch_swallow(self, ok) ==
    IF self.staging_buffer = <<>>
    THEN [self |-> self, raised |-> FALSE, none |-> FALSE, updates |-> <<>>,
          attempted |-> FALSE, sent |-> <<>>]
    ELSE [self |-> [self EXCEPT !.staging_buffer = <<>>, !.batch_count = @ + 1],
          raised |-> FALSE, none |-> FALSE, updates |-> UpdatesOf(self),
          attempted |-> TRUE, sent |-> self.staging_buffer]

\* mutant: the buffer is not cleared when the write fails
flush_batch_keep(self, ok) ==
    IF self.staging_buffer = <<>>
    THEN [self |-> self, raised |-> FALSE, none |-> FALSE, updates |-> <<>>,
          attempted |-> FALSE, sent |-> <<>>]
    ELSE IF ok
    THEN [self |-> [self EXCEPT !.staging_buffer = <<>>, !.batch_count = @ + 1],
          raised |-> FALSE, none |-> FALSE, updates |-> UpdatesOf(self),
          attempted |-> TRUE, sent |-> self.staging_buffer]
    ELSE [self |-> self, raised |-> TRUE, none |-> FALSE, updates |-> <<>>,
          attempted |-> TRUE, sent |-> self.staging_buffer]

\* mutant: a write carries at most batch_size passages, the rest stays in the buffer
flush_batch_slice(self, ok) ==
    LET buf == self.staging_buffer
        n == IF Len(buf) < self.batch_size THEN Len(buf) ELSE self.batch_size
        head == SubSeq(buf, 1, n)
        rest == SubSeq(buf, n + 1, Len(buf))
    IN IF buf = <<>>
       THEN [self |-> self, raised |-> FALSE, none |-> FALSE, updates |-> <<>>,
             attempted |-> FALSE, sent |-> <<>>]
       ELSE IF ok
       THEN [self |-> [self EXCEPT !.staging_buffer = rest, !.batch_count = @ + 1],
             raised |-> FALSE, none |-> FALSE,
             updates |-> UpdatesOf([self EXCEPT !.staging_buffer = head]),
             attempted |-> TRUE, sent |-> head]
       ELSE [self |-> [self EXCEPT !.staging_buffer = <<>>],
             raised |-> TRUE, none |-> FALSE, updates |-> <<>>,
             attempted |-> TRUE, sent |-> head]

\* mutant: batch_count counts the writes that failed as well
flush_batch_countall(self, ok) ==
    IF self.staging_buffer = <<>>
    THEN [self |-> self, raised |-> FALSE, none |-> FALSE, updates |-> <<>>,
          attempted |-> FALSE, sent |-> <<>>]
    ELSE IF ok
    THEN [self |-> [self EXCEPT !.staging_buffer = <<>>, !.batch_count = @ + 1],
          raised |-> FALSE, none |-> FALSE, updates |-> UpdatesOf(self),
          attempted |-> TRUE, sent |-> self.staging_buffer]
    ELSE [self |-> [self EXCEPT !.staging_buffer = <<>>, !.batch_count = @ + 1],
          raised |-> TRUE, none |-> FALSE, updates |-> <<>>,
          attempted |-> TRUE, sent |-> self.staging_buffer]

\* flush_batch with the outcome ok of embed_documents; sent is what was handed to the index
flush_batch(self, ok) ==
    IF self.staging_buffer = <<>>
    THEN [self |-> self, raised |-> FALSE, none |-> FALSE, updates |-> <<>>,
          attempted |-> FALSE, sent |-> <<>>]
    ELSE IF ok
    THEN [self |-> [self EXCEPT !.staging_buffer = <<>>, !.batch_count = @ + 1],
          raised |-> FALSE, none |-> FALSE, updates |-> UpdatesOf(self),
          attempted |-> TRUE, sent |-> self.staging_buffer]
    ELSE [self |-> [self EXCEPT !.staging_buffer = <<>>],
          raised |-> TRUE, none |-> FALSE, updates |-> <<>>,
          attempted |-> TRUE, sent |-> self.staging_buffer]

\* mutant: every add flushes, whatever the size of the buffer
add_document_eager(self, chunks, content_hash, chunk_count, ok) ==
    LET tagged == [k \in 1..Len(chunks) |-> [chunks[k] EXCEPT !.content_hash = content_hash]]
        counts == [h \in DOMAIN self.document_chunk_counts \cup {content_hash} |->
                      IF h = content_hash THEN chunk_count ELSE self.document_chunk_counts[h]]
    IN flush_batch([self EXCEPT !.document_chunk_counts = counts,
                                !.staging_buffer = @ \o tagged], ok)

\* mutant: the buffer is flushed only when it holds more than batch_size passages
add_document_above(self, chunks, content_hash, chunk_count, ok) ==
    LET tagged == [k \in 1..Len(chunks) |-> [chunks[k] EXCEPT !.content_hash = content_hash]]
        counts == [h \in DOMAIN self.document_chunk_counts \cup {content_hash} |->
                      IF h = content_hash THEN chunk_count ELSE self.document_chunk_counts[h]]
        s1 == [self EXCEPT !.document_chunk_counts = counts,
                           !.staging_buffer = @ \o tagged]
    IN IF Len(s1.staging_buffer) > s1.batch_size
       THEN flush_batch(s1, ok)
       ELSE [self |-> s1, raised |-> FALSE, none |-> TRUE, updates |-> <<>>,
             attempted |-> FALSE, sent |-> <<>>]

add_document(self, chunks, content_hash, chunk_count, ok) ==
    LET tagged == [k \in 1..Len(chunks) |-> [chunks[k] EXCEPT !.content_hash = content_hash]]
        counts == [h \in DOMAIN self.document_chunk_counts \cup {content_hash} |->
                      IF h = content_hash THEN chunk_count ELSE self.document_chunk_counts[h]]
        s1 == [self EXCEPT !.document_chunk_counts = counts,
                           !.staging_buffer = @ \o tagged]
    IN IF Len(s1.staging_buffer) >= s1.batch_size
       THEN flush_batch(s1, ok)
       ELSE [self |-> s1, raised |-> FALSE, none |-> TRUE, updates |-> <<>>,
             attempted |-> FALSE, sent |-> <<>>]

\* mutant: finalize returns without flushing what is left in the buffer
finalize_skip(self, ok) ==
    [self |-> self, raised |-> FALSE, none |-> FALSE, updates |-> <<>>,
     attempted |-> FALSE, sent |-> <<>>]

finalize(self, ok) ==
    IF self.staging_buffer # <<>>
    THEN flush_batch(self, ok)
    ELSE [self |-> self, raised |-> FALSE, none |-> FALSE, updates |-> <<>>,
          attempted |-> FALSE, sent |-> <<>>]

\* a call would reach the index, so the outcome of the write is an input of the call
AddWrites(self, n) == Len(self.staging_buffer) + n >= self.batch_size
FlushWrites(self) == self.staging_buffer # <<>>

\* ---------------------------------------------------------- vector index
\* vectorstore.add_documents, all-or-nothing: every tag of the buffer gets one more write
\* holding the passages of the buffer that carry the tag
embed_documents(idx, buf) ==
    [h \in Hashes |-> IF h \in TagsOf(buf) THEN Append(idx[h], CountTag(buf, h)) ELSE idx[h]]

\* =========================================================================
\* SpecBatch: one accumulator, any calls
\* =========================================================================
\* config.py: BATCH_SIZE, and the passages adaptive_chunk_documents yields for each file
\* content: at least one for every parsed document, and enough that a few documents fill
\* a batch of BATCH_SIZE
DefaultConfig == [BATCH_SIZE |-> BATCH_SIZE, chunks |-> [h \in Hashes |-> 3 + 2 * h]]

\* the handle cache of a process that has just started
\*   op, project: the operation and its argument; live: the liveness check of the cached
\*   handle passed; opens: the outcome of every open attempted, in order; cleared:
\*   force_clear_qdrant_locks ran; result, raised: what the call returned;
\*   tried, raisedOn: the handles whose close was attempted, and those whose close raised
NoOp == [op |-> "none", project |-> NoKey, live |-> FALSE, opens |-> <<>>, cleared |-> FALSE,
         result |-> NoClient, raised |-> FALSE, tried |-> {}, raisedOn |-> {}]

HandlesInit ==
    /\ active_clients = [p \in Projects |-> NoClient]
    /\ clients = <<>>
    /\ lockOwner = [p \in Projects |-> NoClient]
    /\ session_state = [qdrant_initialized |-> FALSE, last_selected_project |-> NoKey,
                        db_client |-> NoClient, rerun |-> FALSE]
    /\ lastOp = NoOp

NoCall == [op |-> "init", raised |-> FALSE, none |-> FALSE, attempted |-> FALSE, ok |-> TRUE]

SyncIdleInit ==
    /\ fs = [p \in Paths |-> NoFile]
    /\ registry = <<>>
    /\ index = [h \in Hashes |-> <<>>]
    /\ pc = "idle"
    /\ new_files = <<>>
    /\ pending_docs = <<>>
    /\ i = 0
    /\ errors = <<>>
    /\ processed_count = 0
    /\ txt_paths = <<>>
    /\ staging_buffer = <<>>
    /\ uncommitted = {}
    /\ handed = {}
    /\ failedDocs = {}
    /\ wroteRun = {}
    /\ lastRun = [kind |-> "none", aborted |-> FALSE, errs |-> {}]
    /\ fsChanged = FALSE
    /\ resync = "no"

\* no document has been given to the chunker
NotChunked == [kind |-> "none"]

ChunkIdle ==
    /\ token_count = 0
    /\ out_docs = NotChunked

BatchHistInit ==
    /\ attempts = <<>>
    /\ returned = {}
    /\ addedDocs = <<>>
    /\ lastCall = NoCall

InitBatch ==
    /\ SyncIdleInit
    /\ BatchHistInit
    /\ HandlesInit
    /\ ChunkIdle
    /\ config = DefaultConfig
    /\ nAdds = 0
    /\ \E b \in 1..MaxBatch : bp = DocumentBatchProcessor(b)

Record(r, op, ok) ==
    /\ bp' = r.self
    /\ attempts' = IF r.attempted
                   THEN Append(attempts, [sent |-> r.sent, ok |-> ok, by |-> op])
                   ELSE attempts
    /\ returned' = returned \cup Range(r.updates)
    /\ lastCall' = [op |-> op, raised |-> r.raised, none |-> r.none,
                    attempted |-> r.attempted, ok |-> ok]

BatchAdd(h, n, ok) ==
    /\ lastCall.op # "finalize"
    /\ nAdds < MaxAdds
    /\ ok \/ AddWrites(bp, n)
    /\ Record(add_document(bp, Chunks(nAdds + 1, n), h, n, ok), "add", ok)
    /\ nAdds' = nAdds + 1
    /\ addedDocs' = Append(addedDocs, [hash |-> h, count |-> n])
    /\ UNCHANGED <<worldVars, runVars, edbVars, syncHist>>
    /\ UNCHANGED <<config, chunkVars, handleVars>>

BatchFlush(ok) ==
    /\ lastCall.op # "finalize"
    /\ ok \/ FlushWrites(bp)
    /\ Record(flush_batch(bp, ok), "flush", ok)
    /\ UNCHANGED <<nAdds, addedDocs, worldVars, runVars, edbVars, syncHist>>
    /\ UNCHANGED <<config, chunkVars, handleVars>>

BatchFinalize(ok) ==
    /\ lastCall.op # "finalize"
    /\ ok \/ FlushWrites(bp)
    /\ Record(finalize(bp, ok), "finalize", ok)
    /\ UNCHANGED <<nAdds, addedDocs, worldVars, runVars, edbVars, syncHist>>
    /\ UNCHANGED <<config, chunkVars, handleVars>>

\* reset(): the accumulator is reused for a new cycle
BatchReset ==
    /\ lastCall.op = "finalize"
    /\ bp' = [bp EXCEPT !.staging_buffer = <<>>, !.batch_count = 0,
                        !.document_chunk_counts = <<>>]
    /\ nAdds' = 0
    /\ attempts' = <<>>
    /\ returned' = {}
    /\ addedDocs' = <<>>
    /\ lastCall' = NoCall
    /\ UNCHANGED <<worldVars, runVars, edbVars, syncHist>>
    /\ UNCHANGED <<config, chunkVars, handleVars>>

NextBatch ==
    \/ \E h \in Hashes, n \in 1..MaxChunks, ok \in BOOLEAN : BatchAdd(h, n, ok)
    \/ \E ok \in BOOLEAN : BatchFlush(ok)
    \/ \E ok \in BOOLEAN : BatchFinalize(ok)
    \/ BatchReset

SpecBatch == InitBatch /\ [][NextBatch]_vars

TotalPassages == SumSeq([k \in 1..Len(addedDocs) |-> addedDocs[k].count])
NoWriteFailure == \A k \in 1..Len(attempts) : attempts[k].ok
OnlyAddsThenFinalize ==
    /\ lastCall.op = "finalize"
    /\ \A k \in 1..Len(attempts) : attempts[k].by # "flush"

\* =========================================================================
\* Document registry (core/database.py)
\* =========================================================================
\* mutant: a row that is still pending does not count as known
document_exists_notpending(reg, content_hash) ==
    \E k \in 1..Len(reg) : reg[k].content_hash = content_hash /\ reg[k].status # "pending"

document_exists(reg, content_hash) ==
    \E k \in 1..Len(reg) : reg[k].content_hash = content_hash

\* mutant: the content_hash column is not UNIQUE
insert_document_nounique(reg, path, content_hash, num_chunks) ==
    [reg |-> Append(reg, [id |-> Len(reg) + 1, path |-> path, content_hash |-> content_hash,
                          num_chunks |-> num_chunks, status |-> "pending"]),
     raised |-> FALSE]

\* mutant: INSERT OR REPLACE, the row of a known hash is replaced by a fresh pending row
insert_document_replace(reg, path, content_hash, num_chunks) ==
    [reg |-> Append(SelectSeq(reg, LAMBDA row : row.content_hash # content_hash),
                    [id |-> Len(reg) + 1, path |-> path, content_hash |-> content_hash,
                     num_chunks |-> num_chunks, status |-> "pending"]),
     raised |-> FALSE]

\* INSERT into a table whose content_hash column is UNIQUE: a second row for a hash raises
insert_document(reg, path, content_hash, num_chunks) ==
    IF document_exists(reg, content_hash)
    THEN [reg |-> reg, raised |-> TRUE]
    ELSE [reg |-> Append(reg, [id |-> Len(reg) + 1, path |-> path,
                               content_hash |-> content_hash,
                               num_chunks |-> num_chunks, status |-> "pending"]),
          raised |-> FALSE]

\* mutant: the UPDATE has no WHERE clause
update_document_status_nowhere(reg, content_hash, num_chunks, status) ==
    [k \in 1..Len(reg) |-> [reg[k] EXCEPT !.num_chunks = num_chunks, !.status = status]]

update_document_status(reg, content_hash, num_chunks, status) ==
    [k \in 1..Len(reg) |->
        IF reg[k].content_hash = content_hash
        THEN [reg[k] EXCEPT !.num_chunks = num_chunks, !.status = status]
        ELSE reg[k]]

\* mutant: the SELECT has no WHERE clause
list_documents_by_status_any(reg, status) == Reverse(reg)

\* ORDER BY added_at DESC: most recently inserted first
list_documents_by_status(reg, status) ==
    Reverse(SelectSeq(reg, LAMBDA row : row.status = status))

RowOf(reg, h) == CHOOSE row \in Range(reg) : row.content_hash = h
StatusOf(reg, h) == IF document_exists(reg, h) THEN RowOf(reg, h).status ELSE "absent"

\* =========================================================================
\* Sync orchestrator (components/document_sync.py)
\* =========================================================================
\* passages adaptive_chunk_documents yields for a file content
ChunkCount(content) == config.chunks[content]

\* scan_documents_folder: the files present, in the order the directory walk yields them
Scans == {[k \in 1..Len(order) |-> [path |-> order[k], hash |-> fs[order[k]]]] :
              order \in Perms({p \in Paths : fs[p] # NoFile})}

\* mutant: the updates a flush returns are dropped
ApplyUpdates_skip(reg, updates) == reg

\* for chunk_hash, chunk_count in updates: update_document_status(.., "embedded")
RECURSIVE ApplyUpdates(_, _)
ApplyUpdates(reg, updates) ==
    IF updates = <<>> THEN reg
    ELSE ApplyUpdates(update_document_status(reg, updates[1][1], updates[1][2], "embedded"),
                      Tail(updates))

\* sync_documents returns or raises: its locals are gone
SyncReturn ==
    /\ new_files' = <<>>
    /\ pending_docs' = <<>>
    /\ i' = 0
    /\ errors' = <<>>
    /\ processed_count' = 0
    /\ nAdds' = 0
    /\ bp' = DocumentBatchProcessor(config.BATCH_SIZE)

SyncStart ==
    /\ pc = "idle"
    /\ \E text_files \in Scans :
        LET pend == list_documents_by_status(registry, "pending")
            new == SelectSeq(text_files, LAMBDA f : ~document_exists(registry, f.hash))
            back == lastRun.kind = "sync" /\ ~lastRun.aborted /\ ~fsChanged
        IN /\ resync' = IF back /\ lastRun.errs = {} THEN "clean"
                        ELSE IF back /\ lastRun.errs = {"missing"} THEN "missing"
                        ELSE "no"
           /\ fsChanged' = FALSE
           /\ handed' = {}
           /\ failedDocs' = {}
           /\ wroteRun' = {}
           /\ IF new = <<>> /\ pend = <<>>
              THEN \* nothing to do: return
                   /\ pc' = "idle"
                   /\ lastRun' = [kind |-> "sync", aborted |-> FALSE, errs |-> {}]
                   /\ SyncReturn
              ELSE /\ pc' = IF new # <<>> THEN "new" ELSE "pending"
                   /\ i' = 1
                   /\ new_files' = new
                   /\ pending_docs' = pend
                   /\ errors' = <<>>
                   /\ processed_count' = 0
                   /\ nAdds' = 0
                   /\ bp' = DocumentBatchProcessor(config.BATCH_SIZE)
                   /\ UNCHANGED lastRun
    /\ UNCHANGED <<worldVars, edbVars, batchHist>>
    /\ UNCHANGED <<config, chunkVars, handleVars>>

\* mutant: the pending documents are taken up as soon as one new file has been dealt with
Advance_pendingEarly ==
    IF pc = "new" /\ pending_docs # <<>> THEN /\ pc' = "pending" /\ i' = 1
    ELSE IF pc = "new" /\ i < Len(new_files) THEN /\ pc' = "new" /\ i' = i + 1
    ELSE IF pc = "pending" /\ i < Len(pending_docs) THEN /\ pc' = "pending" /\ i' = i + 1
    ELSE /\ pc' = "final" /\ i' = 0

\* the loop position after item i of the loop pc is in
Advance ==
    IF pc = "new" /\ i < Len(new_files) THEN /\ pc' = "new" /\ i' = i + 1
    ELSE IF pc = "new" /\ pending_docs # <<>> THEN /\ pc' = "pending" /\ i' = 1
    ELSE IF pc = "pending" /\ i < Len(pending_docs) THEN /\ pc' = "pending" /\ i' = i + 1
    ELSE /\ pc' = "final" /\ i' = 0

\* embed_documents inside flush_batch: the passages the call sent reach the index iff the
\* write succeeds, whatever the call then reports
IndexWrite(r, writeOk) ==
    /\ index' = IF r.attempted /\ writeOk THEN embed_documents(index, r.sent) ELSE index
    /\ wroteRun' = IF r.attempted /\ writeOk THEN wroteRun \cup TagsOf(r.sent) ELSE wroteRun
    /\ failedDocs' = IF r.attempted /\ ~writeOk THEN failedDocs \cup TagsOf(r.sent)
                     ELSE failedDocs

\* mutant: the failure ends the loops, the run goes to its final flush
SkipDocument_abort(kind) ==
    /\ errors' = Append(errors, kind)
    /\ pc' = "final" /\ i' = 0
    /\ UNCHANGED <<worldVars, bp, nAdds, processed_count, handed, failedDocs, wroteRun>>

\* mutant: the failure is not added to the error list
SkipDocument_silent(kind) ==
    /\ errors' = errors
    /\ Advance
    /\ UNCHANGED <<worldVars, bp, nAdds, processed_count, handed, failedDocs, wroteRun>>

\* a per-document failure before anything reached the accumulator
SkipDocument(kind) ==
    /\ errors' = Append(errors, kind)
    /\ Advance
    /\ UNCHANGED <<worldVars, bp, nAdds, processed_count, handed, failedDocs, wroteRun>>

\* chunk, add to the batch processor and apply what it returns (lines 134-174, 205-242)
Accumulate(reg, content_hash, n, writeOk) ==
    LET r == add_document(bp, Chunks(nAdds + 1, n), content_hash, n, writeOk)
    IN /\ bp' = r.self
       /\ nAdds' = nAdds + 1
       /\ handed' = handed \cup {content_hash}
       /\ Advance
       /\ UNCHANGED fs
       /\ IndexWrite(r, writeOk)
       /\ IF r.raised
          THEN /\ errors' = Append(errors, "vector")
               /\ registry' = update_document_status(reg, content_hash, 0, "error")
               /\ UNCHANGED processed_count
          ELSE /\ registry' = ApplyUpdates(reg, r.updates)
               /\ processed_count' = processed_count + 1
               /\ UNCHANGED errors

ProcessNewFile(parseOk, writeOk) ==
    /\ pc = "new"
    /\ LET file_info == new_files[i]
           content == fs[file_info.path]
           ins == insert_document(registry, file_info.path, file_info.hash, 0)
       IN IF content = NoFile \/ ~parseOk
          THEN SkipDocument("parse")
          ELSE IF ins.raised
          THEN SkipDocument("db")
          ELSE /\ writeOk \/ AddWrites(bp, ChunkCount(content))
               /\ Accumulate(update_document_status(ins.reg, file_info.hash,
                                                    ChunkCount(content), "pending"),
                             file_info.hash, ChunkCount(content), writeOk)
    /\ UNCHANGED <<new_files, pending_docs, edbVars, lastRun, fsChanged, resync, batchHist>>
    /\ UNCHANGED <<config, chunkVars, handleVars>>

ProcessPending(parseOk, writeOk) ==
    /\ pc = "pending"
    /\ LET row == pending_docs[i]
           content == fs[row.path]
       IN IF content = NoFile
          THEN SkipDocument("missing")
          ELSE IF ~parseOk
          THEN SkipDocument("parse")
          ELSE /\ writeOk \/ AddWrites(bp, ChunkCount(content))
               /\ Accumulate(registry, row.content_hash, ChunkCount(content), writeOk)
    /\ UNCHANGED <<new_files, pending_docs, edbVars, lastRun, fsChanged, resync, batchHist>>
    /\ UNCHANGED <<config, chunkVars, handleVars>>

\* final flush (lines 248-262) and the end of the run; an exception of finalize is not caught
SyncFinalize(writeOk) ==
    /\ pc = "final"
    /\ writeOk \/ FlushWrites(bp)
    /\ LET r == finalize(bp, writeOk)
       IN /\ pc' = "idle"
          /\ lastRun' = [kind |-> "sync", aborted |-> r.raised, errs |-> Range(errors)]
          /\ IndexWrite(r, writeOk)
          /\ registry' = IF r.raised THEN registry ELSE ApplyUpdates(registry, r.updates)
    /\ SyncReturn
    /\ UNCHANGED <<fs, handed, edbVars, fsChanged, resync, batchHist>>
    /\ UNCHANGED <<config, chunkVars, handleVars>>

\* =========================================================================
\* The documents folder and the uploader
\* =========================================================================
\* copy_files_to_project, run between ingestion runs: a file is copied into the folder, over
\* whatever is at the path
CopyFile(p, h) ==
    /\ pc = "idle"
    /\ fs[p] # h
    /\ fs' = [fs EXCEPT ![p] = h]
    /\ fsChanged' = TRUE
    /\ UNCHANGED <<registry, index, runVars, bp, nAdds, edbVars, handed, failedDocs, wroteRun,
                   lastRun, resync, batchHist>>
    /\ UNCHANGED <<config, chunkVars, handleVars>>

\* a file of the folder is removed by the user, at any time
RemoveFile(p) ==
    /\ fs[p] # NoFile
    /\ fs' = [fs EXCEPT ![p] = NoFile]
    /\ fsChanged' = TRUE
    /\ UNCHANGED <<registry, index, runVars, bp, nAdds, edbVars, handed, failedDocs, wroteRun,
                   lastRun, resync, batchHist>>
    /\ UNCHANGED <<config, chunkVars, handleVars>>

\* render_unsorted_uploader, one uploaded file: skip a known hash, else save the file,
\* parse it and insert its row (a parser exception leaves the saved file without a row)
Upload(p, h, parseOk) ==
    /\ pc = "idle"
    /\ ~document_exists(registry, h)
    /\ fs' = [fs EXCEPT ![p] = h]
    /\ registry' = IF parseOk THEN insert_document(registry, p, h, 0).reg ELSE registry
    /\ fsChanged' = TRUE
    /\ UNCHANGED <<index, runVars, bp, nAdds, edbVars, handed, failedDocs, wroteRun,
                   lastRun, resync, batchHist>>
    /\ UNCHANGED <<config, chunkVars, handleVars>>

\* =========================================================================
\* embed_directory_batched (core/vector_store.py), run by utils/batch_process.py
\* =========================================================================
\* the exception leaves embed_directory_batched: the connection is dropped and the rows
\* inserted since the last commit are rolled back
EdbAbort ==
    /\ registry' = SelectSeq(registry, LAMBDA row : row.content_hash \notin uncommitted)
    /\ uncommitted' = {}
    /\ staging_buffer' = <<>>
    /\ pc' = "idle"
    /\ i' = 0
    /\ txt_paths' = <<>>
    /\ lastRun' = [kind |-> "edb", aborted |-> TRUE, errs |-> {}]
    /\ UNCHANGED <<index, wroteRun>>

\* flush_batch(buffer, vs, con) of vector_store.py on a non-empty buffer that is written
EdbWrite(reg, buf) ==
    /\ registry' = reg
    /\ index' = embed_documents(index, buf)
    /\ wroteRun' = wroteRun \cup TagsOf(buf)
    /\ uncommitted' = {}
    /\ staging_buffer' = <<>>

EdbStart ==
    /\ pc = "idle"
    /\ \E order \in Perms({p \in Paths : fs[p] # NoFile}) :
        /\ order # <<>>
        /\ txt_paths' = order
    /\ pc' = "edb"
    /\ i' = 1
    /\ staging_buffer' = <<>>
    /\ uncommitted' = {}
    /\ handed' = {}
    /\ failedDocs' = {}
    /\ wroteRun' = {}
    /\ resync' = "no"
    /\ UNCHANGED <<worldVars, new_files, pending_docs, errors, processed_count, bp, nAdds,
                   lastRun, fsChanged, batchHist>>
    /\ UNCHANGED <<config, chunkVars, handleVars>>

EdbNext ==
    /\ IF i < Len(txt_paths) THEN /\ pc' = "edb" /\ i' = i + 1
                              ELSE /\ pc' = "edb_final" /\ i' = 0
    /\ UNCHANGED txt_paths

EdbFile(parseOk, writeOk) ==
    /\ pc = "edb"
    /\ LET path == txt_paths[i]
           h == fs[path]
           n == ChunkCount(h)
           chunks == [k \in 1..n |-> [doc |-> i, idx |-> k, content_hash |-> h]]
           buf == staging_buffer \o chunks
       IN IF h = NoFile
          THEN EdbAbort
          ELSE IF document_exists(registry, h)
          THEN EdbNext /\ UNCHANGED <<registry, index, wroteRun, uncommitted, staging_buffer,
                                      lastRun>>
          ELSE IF ~parseOk
          THEN EdbAbort
          ELSE IF Len(buf) < config.BATCH_SIZE
          THEN /\ registry' = insert_document(registry, path, h, n).reg
               /\ uncommitted' = uncommitted \cup {h}
               /\ staging_buffer' = buf
               /\ EdbNext
               /\ UNCHANGED <<index, wroteRun, lastRun>>
          ELSE IF writeOk
          THEN /\ EdbWrite(insert_document(registry, path, h, n).reg, buf)
               /\ EdbNext
               /\ UNCHANGED lastRun
          ELSE EdbAbort
    /\ UNCHANGED <<fs, new_files, pending_docs, errors, processed_count, bp, nAdds,
                   handed, failedDocs, fsChanged, resync, batchHist>>
    /\ UNCHANGED <<config, chunkVars, handleVars>>

EdbFinal(writeOk) ==
    /\ pc = "edb_final"
    /\ writeOk \/ staging_buffer # <<>>
    /\ IF staging_buffer = <<>>
       THEN /\ pc' = "idle"
            /\ txt_paths' = <<>>
            /\ lastRun' = [kind |-> "edb", aborted |-> FALSE, errs |-> {}]
            /\ UNCHANGED <<registry, index, wroteRun, uncommitted, staging_buffer, i>>
       ELSE IF writeOk
       THEN /\ EdbWrite(registry, staging_buffer)
            /\ pc' = "idle"
            /\ txt_paths' = <<>>
            /\ lastRun' = [kind |-> "edb", aborted |-> FALSE, errs |-> {}]
            /\ UNCHANGED i
       ELSE EdbAbort
    /\ UNCHANGED <<fs, new_files, pending_docs, errors, processed_count, bp, nAdds,
                   handed, failedDocs, fsChanged, resync, batchHist>>
    /\ UNCHANGED <<config, chunkVars, handleVars>>

\* a configuration with a batch of 10 and small files: content h yields h passages
SmallFilesConfig == [BATCH_SIZE |-> 10, chunks |-> [h \in Hashes |-> h]]

\* =========================================================================
\* Spec: a fresh project, then any folder changes, uploads and ingestion runs
\* =========================================================================
Init ==
    /\ SyncIdleInit
    /\ BatchHistInit
    /\ HandlesInit
    /\ ChunkIdle
    /\ config \in {DefaultConfig, SmallFilesConfig}
    /\ nAdds = 0
    /\ bp = DocumentBatchProcessor(config.BATCH_SIZE)

Next ==
    \/ \E p \in Paths, h \in Hashes : CopyFile(p, h)
    \/ \E p \in Paths : RemoveFile(p)
    \/ \E p \in Paths, h \in Hashes, parseOk \in BOOLEAN : Upload(p, h, parseOk)
    \/ SyncStart
    \/ \E parseOk, writeOk \in BOOLEAN : ProcessNewFile(parseOk, writeOk)
    \/ \E parseOk, writeOk \in BOOLEAN : ProcessPending(parseOk, writeOk)
    \/ \E writeOk \in BOOLEAN : SyncFinalize(writeOk)
    \/ EdbStart
    \/ \E parseOk, writeOk \in BOOLEAN : EdbFile(parseOk, writeOk)
    \/ \E writeOk \in BOOLEAN : EdbFinal(writeOk)

Spec == Init /\ [][Next]_vars

\* =========================================================================
\* SpecSync: a project ingested by sync_documents alone
\* =========================================================================
NextSync ==
    \/ \E p \in Paths, h \in Hashes : CopyFile(p, h)
    \/ \E p \in Paths : RemoveFile(p)
    \/ \E p \in Paths, h \in Hashes, parseOk \in BOOLEAN : Upload(p, h, parseOk)
    \/ SyncStart
    \/ \E parseOk, writeOk \in BOOLEAN : ProcessNewFile(parseOk, writeOk)
    \/ \E parseOk, writeOk \in BOOLEAN : ProcessPending(parseOk, writeOk)
    \/ \E writeOk \in BOOLEAN : SyncFinalize(writeOk)

SpecSync == Init /\ [][NextSync]_vars

\* =========================================================================
\* Handle cache (core/vector_store.py)
\* =========================================================================
\* the process-wide state the cache functions work on
Handles == [active_clients |-> active_clients, clients |-> clients, lockOwner |-> lockOwner]

\* client.close(): when it returns the handle is closed and its lock released; when it
\* raises (ok false) the close did not complete, the handle keeps its lock
QdrantClient_close(H, h, ok) ==
    LET prj == H.clients[h].project
    IN IF ok
       THEN [H EXCEPT !.clients[h].open = FALSE,
                      !.lockOwner[prj] = IF @ = h THEN NoClient ELSE @]
       ELSE H

\* QdrantClient(path=...): takes the lock of the project's index; raises when the lock on
\* the lock file is held, or for another reason (ok false)
QdrantClient(H, project_name, ok) ==
    IF ok /\ H.lockOwner[project_name] = NoClient
    THEN [H |-> [H EXCEPT !.clients = Append(@, [project |-> project_name, open |-> TRUE]),
                          !.lockOwner[project_name] = Len(H.clients) + 1],
          client |-> Len(H.clients) + 1]
    ELSE [H |-> H, client |-> NoClient]

\* os.remove of the lock files: when the file is removed (removed) whoever held a lock on it
\* holds it on an unlinked file, and the next open creates and locks a new one
force_clear_qdrant_locks(H, project_name, removed) ==
    IF removed THEN [H EXCEPT !.lockOwner[project_name] = NoClient] ELSE H

\* _active_clients[client_key] = client
Store(H, project_name, client) == [H EXCEPT !.active_clients[project_name] = client]

\* what a cache call did, in the fields of lastOp that the call decides
Outcome(H, cached, live, opens, cleared, result, raised, tried, raisedOn) ==
    [H |-> H, cached |-> cached, live |-> live, opens |-> opens, cleared |-> cleared,
     result |-> result, raised |-> raised, tried |-> tried, raisedOn |-> raisedOn]

\* mutant: a cached handle is returned without regard to the liveness check
get_qdrant_client_nocheck(H, project_name, live, closeOk, ok1, removed, ok2) ==
    LET c == H.active_clients[project_name]
        o1 == QdrantClient(H, project_name, ok1)
        H2 == force_clear_qdrant_locks(H, project_name, removed)
        o2 == QdrantClient(H2, project_name, ok2)
    IN IF c # NoClient
       THEN Outcome(H, c, live, <<>>, FALSE, c, FALSE, {}, {})
       ELSE IF o1.client # NoClient
       THEN Outcome(Store(o1.H, project_name, o1.client), c, FALSE, <<TRUE>>, FALSE, o1.client, FALSE, {}, {})
       ELSE IF o2.client # NoClient
       THEN Outcome(Store(o2.H, project_name, o2.client), c, FALSE, <<FALSE, TRUE>>, TRUE, o2.client, FALSE, {}, {})
       ELSE Outcome(H2, c, FALSE, <<FALSE, FALSE>>, TRUE, NoClient, TRUE, {}, {})

\* mutant: a failed open is not retried
get_qdrant_client_noretry(H, project_name, live, closeOk, ok1, removed, ok2) ==
    LET c == H.active_clients[project_name]
        broken == c # NoClient /\ ~live
        H1 == IF broken
              THEN [QdrantClient_close(H, c, closeOk)
                       EXCEPT !.active_clients[project_name] = NoClient]
              ELSE H
        tried == IF broken THEN {c} ELSE {}
        raisedOn == IF broken /\ ~closeOk THEN {c} ELSE {}
        o1 == QdrantClient(H1, project_name, ok1)
    IN IF c # NoClient /\ live
       THEN Outcome(H, c, TRUE, <<>>, FALSE, c, FALSE, {}, {})
       ELSE IF o1.client # NoClient
       THEN Outcome(Store(o1.H, project_name, o1.client), c, FALSE, <<TRUE>>, FALSE, o1.client, FALSE, tried, raisedOn)
       ELSE Outcome(H1, c, FALSE, <<FALSE>>, FALSE, NoClient, TRUE, tried, raisedOn)

\* get_qdrant_client(project_name); live: get_collections() on the cached handle returns;
\* closeOk: the close of a broken handle returns; ok1, ok2: nothing but the lock makes
\* the first and the second open fail; removed: the lock file could be removed
get_qdrant_client(H, project_name, live, closeOk, ok1, removed, ok2) ==
    LET c == H.active_clients[project_name]
        broken == c # NoClient /\ ~live
        H1 == IF broken
              THEN [QdrantClient_close(H, c, closeOk)
                       EXCEPT !.active_clients[project_name] = NoClient]
              ELSE H
        tried == IF broken THEN {c} ELSE {}
        raisedOn == IF broken /\ ~closeOk THEN {c} ELSE {}
        o1 == QdrantClient(H1, project_name, ok1)
        H2 == force_clear_qdrant_locks(H1, project_name, removed)
        o2 == QdrantClient(H2, project_name, ok2)
    IN IF c # NoClient /\ live
       THEN Outcome(H, c, TRUE, <<>>, FALSE, c, FALSE, {}, {})
       ELSE IF o1.client # NoClient
       THEN Outcome(Store(o1.H, project_name, o1.client), c, FALSE, <<TRUE>>, FALSE, o1.client, FALSE, tried, raisedOn)
       ELSE IF o2.client # NoClient
       THEN Outcome(Store(o2.H, project_name, o2.client), c, FALSE, <<FALSE, TRUE>>, TRUE, o2.client, FALSE, tried, raisedOn)
       ELSE Outcome(H2, c, FALSE, <<FALSE, FALSE>>, TRUE, NoClient, TRUE, tried, raisedOn)

\* close_qdrant_client(project_name): close, then del, in one try whose except passes
close_qdrant_client(H, project_name, closeOk) ==
    LET c == H.active_clients[project_name]
        H1 == QdrantClient_close(H, c, closeOk)
    IN IF c = NoClient
       THEN Outcome(H, c, FALSE, <<>>, FALSE, NoClient, FALSE, {}, {})
       ELSE IF closeOk
       THEN Outcome([H1 EXCEPT !.active_clients[project_name] = NoClient],
                    c, FALSE, <<>>, FALSE, NoClient, FALSE, {c}, {})
       ELSE Outcome(H1, c, FALSE, <<>>, FALSE, NoClient, FALSE, {c}, {c})

\* the handles in the cache
Cached(H) == {H.active_clients[q] : q \in Projects} \ {NoClient}

\* close() on every cached handle, each in its own try: closeOk[q] is the outcome of
\* closing the handle of project q
RECURSIVE CloseEach(_, _, _)
CloseEach(H, todo, closeOk) ==
    IF todo = {} THEN H
    ELSE LET q == CHOOSE x \in todo : TRUE
         IN CloseEach(QdrantClient_close(H, H.active_clients[q], closeOk[q]),
                      todo \ {q}, closeOk)

CloseAll(H, closeOk) ==
    CloseEach(H, {q \in Projects : H.active_clients[q] # NoClient}, closeOk)

RaisedOn(H, closeOk) ==
    {H.active_clients[q] : q \in {x \in Projects : H.active_clients[x] # NoClient /\ ~closeOk[x]}}

Emptied(H) == [H EXCEPT !.active_clients = [q \in Projects |-> NoClient]]

\* mutant: no try around close(), the first close that raises ends the call
clear_qdrant_cache_stop(H, closeOk) ==
    IF RaisedOn(H, closeOk) = {}
    THEN Outcome(Emptied(CloseAll(H, closeOk)),
                 NoClient, FALSE, <<>>, FALSE, NoClient, FALSE, Cached(H), {})
    ELSE LET h == CHOOSE x \in RaisedOn(H, closeOk) : TRUE
         IN Outcome(H, NoClient, FALSE, <<>>, FALSE, NoClient, TRUE, {h}, {h})

\* clear_qdrant_cache(): close every handle (except: pass), then _active_clients.clear()
clear_qdrant_cache(H, closeOk) ==
    Outcome(Emptied(CloseAll(H, closeOk)),
            NoClient, FALSE, <<>>, FALSE, NoClient, FALSE, Cached(H), RaisedOn(H, closeOk))

\* force_close_all_clients(): close every handle, del in the finally of each
force_close_all_clients(H, closeOk) ==
    Outcome(Emptied(CloseAll(H, closeOk)),
            NoClient, FALSE, <<>>, FALSE, NoClient, FALSE, Cached(H), RaisedOn(H, closeOk))

\* force_clear_all_qdrant_caches(): as clear_qdrant_cache, then gc.collect() and a sleep
force_clear_all_qdrant_caches(H, closeOk) ==
    Outcome(Emptied(CloseAll(H, closeOk)),
            NoClient, FALSE, <<>>, FALSE, NoClient, FALSE, Cached(H), RaisedOn(H, closeOk))

\* =========================================================================
\* Project change (components/state_manager.py, app.py)
\* =========================================================================
\* mutant: the project change leaves the cache and db_client as they are
handle_project_change_keep(S, H, selected, closeOk) ==
    IF S.last_selected_project = NoKey
    THEN [S |-> [S EXCEPT !.last_selected_project = selected], H |-> H, changed |-> FALSE,
          tried |-> {}, raisedOn |-> {}]
    ELSE IF S.last_selected_project # selected
    THEN [S |-> [S EXCEPT !.last_selected_project = selected, !.rerun = TRUE],
          H |-> H, changed |-> TRUE, tried |-> {}, raisedOn |-> {}]
    ELSE [S |-> S, H |-> H, changed |-> FALSE, tried |-> {}, raisedOn |-> {}]

\* handle_project_change(selected): the first call records the project; a different
\* project drops db_client, clears the cache, records the project and asks for a rerun
handle_project_change(S, H, selected, closeOk) ==
    LET r == force_clear_all_qdrant_caches(H, closeOk)
    IN IF S.last_selected_project = NoKey
       THEN [S |-> [S EXCEPT !.last_selected_project = selected], H |-> H, changed |-> FALSE,
             tried |-> {}, raisedOn |-> {}]
       ELSE IF S.last_selected_project # selected
       THEN [S |-> [S EXCEPT !.db_client = NoClient, !.last_selected_project = selected,
                             !.rerun = TRUE],
             H |-> r.H, changed |-> TRUE, tried |-> r.tried, raisedOn |-> r.raisedOn]
       ELSE [S |-> S, H |-> H, changed |-> FALSE, tried |-> {}, raisedOn |-> {}]

\* =========================================================================
\* SpecHandles: the cache driven by its callers, the app runs and other processes
\* =========================================================================
\* inputs that cannot matter are fixed, so that each outcome is drawn once
GetInputs(H, p, live, closeOk, ok1, removed, ok2) ==
    LET c == H.active_clients[p]
        free == H.lockOwner[p] = NoClient \/ (H.lockOwner[p] = c /\ ~live /\ closeOk)
        hit == c # NoClient /\ live
    IN /\ c = NoClient => live
       /\ (c = NoClient \/ live) => closeOk
       /\ hit => (ok1 /\ removed /\ ok2)
       /\ free => removed
       /\ ~free => ok1
       /\ (ok1 /\ free) => ok2
       /\ (~free /\ ~removed) => ok2

\* the call opens nothing (the cached handle passes the check), or a handle is left to open
CanOpen(H, p, live) ==
    \/ Len(H.clients) < MaxClients
    \/ H.active_clients[p] # NoClient /\ live

CloseInputs(H, closeOk) ==
    \A q \in Projects : H.active_clients[q] = NoClient => closeOk[q]

AllGood == [q \in Projects |-> TRUE]

SetHandles(H) ==
    /\ active_clients' = H.active_clients
    /\ clients' = H.clients
    /\ lockOwner' = H.lockOwner

RecordOp(r, op, p) ==
    lastOp' = [op |-> op, project |-> p, live |-> r.live, opens |-> r.opens,
               cleared |-> r.cleared, result |-> r.result, raised |-> r.raised,
               tried |-> r.tried, raisedOn |-> r.raisedOn]

\* any caller of get_qdrant_client(p)
GetClient(p, live, closeOk, ok1, removed, ok2) ==
    /\ CanOpen(Handles, p, live)
    /\ GetInputs(Handles, p, live, closeOk, ok1, removed, ok2)
    /\ LET r == get_qdrant_client(Handles, p, live, closeOk, ok1, removed, ok2)
       IN SetHandles(r.H) /\ RecordOp(r, "get", p)
    /\ UNCHANGED <<session_state, config, chunkVars, ingestVars>>

CloseClient(p, closeOk) ==
    /\ active_clients[p] = NoClient => closeOk
    /\ LET r == close_qdrant_client(Handles, p, closeOk)
       IN SetHandles(r.H) /\ RecordOp(r, "close", p)
    /\ UNCHANGED <<session_state, config, chunkVars, ingestVars>>

ClearCache(closeOk) ==
    /\ CloseInputs(Handles, closeOk)
    /\ LET r == clear_qdrant_cache(Handles, closeOk)
       IN SetHandles(r.H) /\ RecordOp(r, "invalidate_all", NoKey)
    /\ UNCHANGED <<session_state, config, chunkVars, ingestVars>>

ForceCloseAll(closeOk) ==
    /\ CloseInputs(Handles, closeOk)
    /\ LET r == force_close_all_clients(Handles, closeOk)
       IN SetHandles(r.H) /\ RecordOp(r, "invalidate_all", NoKey)
    /\ UNCHANGED <<session_state, config, chunkVars, ingestVars>>

ForceClearAll(closeOk) ==
    /\ CloseInputs(Handles, closeOk)
    /\ LET r == force_clear_all_qdrant_caches(Handles, closeOk)
       IN SetHandles(r.H) /\ RecordOp(r, "invalidate_all", NoKey)
    /\ UNCHANGED <<session_state, config, chunkVars, ingestVars>>

\* the handle of embed_directory_batched(p): got from the cache, closed at the end of a run
\* that completes and left in the cache (what the run does to the registry and the index
\* is EdbStart, EdbFile and EdbFinal of Spec)
EdbClient(p, live, closeOk, ok1, removed, ok2, completes, endOk) ==
    /\ CanOpen(Handles, p, live)
    /\ GetInputs(Handles, p, live, closeOk, ok1, removed, ok2)
    /\ completes \/ endOk
    /\ LET r == get_qdrant_client(Handles, p, live, closeOk, ok1, removed, ok2)
       IN r.raised => completes
    /\ LET r == get_qdrant_client(Handles, p, live, closeOk, ok1, removed, ok2)
       IN IF r.raised \/ ~completes
          THEN /\ endOk
               /\ SetHandles(r.H)
               /\ RecordOp([r EXCEPT !.raised = TRUE], "embed_directory_batched", p)
          ELSE /\ SetHandles(QdrantClient_close(r.H, r.result, endOk))
               /\ RecordOp([r EXCEPT !.raised = ~endOk, !.tried = @ \cup {r.result},
                                     !.raisedOn = IF endOk THEN @ ELSE @ \cup {r.result}],
                           "embed_directory_batched", p)
    /\ UNCHANGED <<session_state, config, chunkVars, ingestVars>>

\* another process opens, or closes, the index of project p
OtherProcessLocks(p) ==
    /\ lockOwner[p] = NoClient
    /\ lockOwner' = [lockOwner EXCEPT ![p] = OtherProcess]
    /\ lastOp' = [NoOp EXCEPT !.op = "other_process", !.project = p]
    /\ UNCHANGED <<active_clients, clients, session_state, config, chunkVars, ingestVars>>

OtherProcessUnlocks(p) ==
    /\ lockOwner[p] = OtherProcess
    /\ lockOwner' = [lockOwner EXCEPT ![p] = NoClient]
    /\ lastOp' = [NoOp EXCEPT !.op = "other_process", !.project = p]
    /\ UNCHANGED <<active_clients, clients, session_state, config, chunkVars, ingestVars>>

\* one run of the app script with the selectbox on sel: the first run of a session clears
\* the cache, render_sidebar gets the handle of the selected project, then the project
\* change is handled and, unless a rerun was asked for, db_client is stored
AppRun(sel, live, closeOk, ok1, removed, ok2, allOk) ==
    LET first == ~session_state.qdrant_initialized
        S0 == [session_state EXCEPT !.qdrant_initialized = TRUE, !.rerun = FALSE]
        c0 == clear_qdrant_cache(Handles, allOk)
        Ha == IF first THEN c0.H ELSE Handles
        g == IF sel \in Projects
             THEN get_qdrant_client(Ha, sel, live, closeOk, ok1, removed, ok2)
             ELSE Outcome(Ha, NoClient, FALSE, <<>>, FALSE, NoClient, FALSE, {}, {})
        hc == handle_project_change(S0, g.H, sel, allOk)
        change == /\ ~g.raised
                  /\ session_state.last_selected_project \notin {NoKey, sel}
    IN /\ sel \in Projects => CanOpen(Ha, sel, live)
       /\ session_state.rerun => sel = session_state.last_selected_project
       /\ IF sel \in Projects
          THEN GetInputs(Ha, sel, live, closeOk, ok1, removed, ok2)
          ELSE live /\ closeOk /\ ok1 /\ removed /\ ok2
       /\ IF first THEN CloseInputs(Handles, allOk)
          ELSE IF change THEN CloseInputs(g.H, allOk)
          ELSE allOk = AllGood
       /\ IF g.raised
          THEN /\ SetHandles(g.H)
               /\ session_state' = S0
               /\ RecordOp(g, "app_failed", sel)
          ELSE /\ SetHandles(hc.H)
               /\ session_state' = IF hc.changed \/ sel \notin Projects THEN hc.S
                                   ELSE [hc.S EXCEPT !.db_client = g.result]
               /\ RecordOp([g EXCEPT !.tried = hc.tried, !.raisedOn = hc.raisedOn],
                           IF hc.changed THEN "project_change" ELSE "app_run", sel)
       /\ UNCHANGED <<config, chunkVars, ingestVars>>

InitHandles ==
    /\ SyncIdleInit
    /\ BatchHistInit
    /\ HandlesInit
    /\ ChunkIdle
    /\ config = DefaultConfig
    /\ nAdds = 0
    /\ bp = DocumentBatchProcessor(config.BATCH_SIZE)

NextHandles ==
    \/ \E p \in Projects, live, closeOk, ok1, removed, ok2 \in BOOLEAN :
           GetClient(p, live, closeOk, ok1, removed, ok2)
    \/ \E p \in Projects, closeOk \in BOOLEAN : CloseClient(p, closeOk)
    \/ \E closeOk \in [Projects -> BOOLEAN] : ClearCache(closeOk)
    \/ \E closeOk \in [Projects -> BOOLEAN] : ForceCloseAll(closeOk)
    \/ \E closeOk \in [Projects -> BOOLEAN] : ForceClearAll(closeOk)
    \/ \E p \in Projects, live, closeOk, ok1, removed, ok2, completes, endOk \in BOOLEAN :
           EdbClient(p, live, closeOk, ok1, removed, ok2,
                     completes, endOk)
    \/ \E sel \in Projects \cup {NoneSelected},
          live, closeOk, ok1, removed, ok2 \in BOOLEAN, allOk \in [Projects -> BOOLEAN] :
           AppRun(sel, live, closeOk, ok1, removed, ok2, allOk)
    \/ \E p \in Projects : OtherProcessLocks(p)
    \/ \E p \in Projects : OtherProcessUnlocks(p)

SpecHandles == InitHandles /\ [][NextHandles]_vars

\* =========================================================================
\* SpecChunk: adaptive_chunk_documents (core/vector_store.py) on one document
\* =========================================================================
TokenCounts == 0..MaxTokens

\* out_docs.append(doc): the document itself is the one passage
Whole(t) == [kind |-> "whole", passages |-> <<t>>]

\* RecursiveCharacterTextSplitter.from_tiktoken_encoder(chunk_size, chunk_overlap) applied
\* to the document
Split(t, chunk_size, chunk_overlap) ==
    [kind |-> "split", tokens |-> t, chunk_size |-> chunk_size, chunk_overlap |-> chunk_overlap]

\* mutant: the boundaries belong to the lower tier
adaptive_chunk_documents_closed(t) ==
    IF t <= 300 THEN Whole(t)
    ELSE IF t <= 800 THEN Split(t, 400, 100)
    ELSE IF t <= 2000 THEN Split(t, 600, 120)
    ELSE Split(t, 800, 150)

\* adaptive_chunk_documents([doc]) for a document of t tokens
adaptive_chunk_documents(t) ==
    IF t < 300 THEN Whole(t)
    ELSE IF t < 800 THEN Split(t, 400, 100)
    ELSE IF t < 2000 THEN Split(t, 600, 120)
    ELSE Split(t, 800, 150)

\* the callers' chunked_docs = adaptive_chunk_documents(docs), docs holding one document
ChunkDocument ==
    /\ out_docs = NotChunked
    /\ out_docs' = adaptive_chunk_documents(token_count)
    /\ UNCHANGED <<token_count, config, handleVars, ingestVars>>

\* the next document is parsed
NextDocument(t) ==
    /\ out_docs # NotChunked
    /\ token_count' = t
    /\ out_docs' = NotChunked
    /\ UNCHANGED <<config, handleVars, ingestVars>>

InitChunk ==
    /\ SyncIdleInit
    /\ BatchHistInit
    /\ HandlesInit
    /\ config = DefaultConfig
    /\ nAdds = 0
    /\ bp = DocumentBatchProcessor(config.BATCH_SIZE)
    /\ token_count \in TokenCounts
    /\ out_docs = NotChunked

NextChunk ==
    \/ ChunkDocument
    \/ \E t \in TokenCounts : NextDocument(t)

SpecChunk == InitChunk /\ [][NextChunk]_vars

\* =========================================================================
\* Claims
\* =========================================================================
SyncRunning == pc \in {"new", "pending", "final"}
SyncEnded == pc = "idle" /\ lastRun.kind = "sync"

\* C1 (as claimed): when a sync run has ended without an exception leaving it, every
\* document handed to the accumulator in that run is embedded or error, none is pending.
C1_StatusCoverage ==
    (SyncEnded /\ ~lastRun.aborted) =>
        \A h \in handed : StatusOf(registry, h) \in {"embedded", "error"}

\* C2 (as claimed): when a sync run has ended, every document that had passages in a
\* batch whose write failed has status error and num_chunks 0.
C2_FlushErrorMarksBatch ==
    SyncEnded =>
        \A h \in failedDocs :
            /\ document_exists(registry, h)
            /\ RowOf(registry, h).status = "error"
            /\ RowOf(registry, h).num_chunks = 0

\* C3: a row with status embedded has num_chunks >= 1 and the index holds a successful
\* write carrying exactly num_chunks passages tagged with its hash.
C3_EmbeddedImpliesWritten ==
    \A k \in 1..Len(registry) :
        registry[k].status = "embedded" =>
            /\ registry[k].num_chunks >= 1
            /\ \E w \in 1..Len(index[registry[k].content_hash]) :
                   index[registry[k].content_hash][w] = registry[k].num_chunks

\* C3 witness: a write failed in some sync run (a document is error) and a document is
\* embedded by a write that succeeded.
C3_Witness ==
    /\ \E k \in 1..Len(registry) : registry[k].status = "embedded"
    /\ \E k \in 1..Len(registry) : registry[k].status = "error"

\* C4 (as claimed): when an ingestion run (sync_documents or embed_directory_batched) has
\* ended, no document written to the index by that run is pending in the registry.
C4_WrittenImpliesRecorded ==
    (pc = "idle" /\ lastRun.kind \in {"sync", "edb"}) =>
        \A h \in wroteRun : StatusOf(registry, h) # "pending"

\* C5: the registry never holds two rows with the same content_hash, and the step of a sync
\* run whose insert is refused as a duplicate leaves the registry as it was.
UniqueHashes ==
    \A a, b \in 1..Len(registry) :
        registry[a].content_hash = registry[b].content_hash => a = b
DuplicateRefused ==
    /\ pc = "new"
    /\ Len(errors') = Len(errors) + 1
    /\ errors'[Len(errors')] = "db"
C5_Dedup == [](UniqueHashes) /\ [][DuplicateRefused => registry' = registry]_vars

\* C5 witness: two files with identical bytes were in the folder in one sync run and the
\* insert of the second was refused.
C5_Witness == "db" \in Range(errors) /\ Len(registry) >= 1

\* C6 (as claimed): a sync run that directly follows a sync run with no parse, registry or
\* vector-write failure, the folder unchanged since that run started, has no new file and
\* no pending document and does nothing.
C6_IdempotentOriginal ==
    resync \in {"clean", "missing"} =>
        ~SyncRunning /\ handed = {} /\ wroteRun = {} /\ failedDocs = {}

\* C6 (amended): a sync run that directly follows a sync run with no parse, registry,
\* vector-write or missing-file failure, the folder unchanged since that run started, has
\* no new file and no pending document and does nothing.
C6_Idempotent ==
    resync = "clean" =>
        ~SyncRunning /\ handed = {} /\ wroteRun = {} /\ failedDocs = {}

\* C6 witness: the second of two such runs has returned, the first having embedded a document.
C6_Witness ==
    /\ resync = "clean"
    /\ SyncEnded
    /\ \E k \in 1..Len(registry) : registry[k].status = "embedded"

\* C7: after adds and finalize with no failed write, the hashes of the returned pairs are
\* the hashes added, and every returned pair is the (hash, count) of an add.
C7_Attribution ==
    (OnlyAddsThenFinalize /\ NoWriteFailure) =>
        /\ {u[1] : u \in returned} = {addedDocs[k].hash : k \in 1..Len(addedDocs)}
        /\ \A u \in returned :
               \E k \in 1..Len(addedDocs) : addedDocs[k] = [hash |-> u[1], count |-> u[2]]

\* C7 witness: two documents were added, one flushed by its add and one by finalize.
C7_Witness ==
    /\ OnlyAddsThenFinalize
    /\ NoWriteFailure
    /\ Len(addedDocs) >= 2
    /\ Len(attempts) >= 2
    /\ addedDocs[1].hash # addedDocs[2].hash

\* C8 (as claimed): after adds and finalize with no failed write, when the total passage
\* count is a multiple of the capacity, the number of writes is total / capacity.
C8_FlushCount ==
    (OnlyAddsThenFinalize /\ NoWriteFailure /\ TotalPassages % bp.batch_size = 0) =>
        Len(attempts) * bp.batch_size = TotalPassages

\* C9 (as claimed): no write sent to the index holds more passages than the capacity.
C9_BatchBound ==
    \A k \in 1..Len(attempts) : Len(attempts[k].sent) <= bp.batch_size

\* C10: a call whose write fails raises and leaves the buffer empty, and no passage of a
\* failed write is in any later write.
C10_FailureClearsBuffer ==
    /\ (lastCall.attempted /\ ~lastCall.ok) =>
           (lastCall.raised /\ bp.staging_buffer = <<>>)
    /\ \A a, b \in 1..Len(attempts) :
           (a < b /\ ~attempts[a].ok) =>
               Range(attempts[a].sent) \cap Range(attempts[b].sent) = {}

\* C10 witness: a write failed and a later write was sent.
C10_Witness ==
    /\ Len(attempts) >= 2
    /\ ~attempts[1].ok

Statuses == {"pending", "embedded", "error"}

InsertRefusesKnownHash ==
    \A h \in Hashes, p \in Paths, n \in 0..MaxChunks :
        document_exists(registry, h) =>
            insert_document(registry, p, h, n) = [reg |-> registry, raised |-> TRUE]
C18_InsertUnique ==
    /\ [](InsertRefusesKnownHash)
    /\ [][DuplicateRefused =>
             /\ registry' = registry
             /\ processed_count' = processed_count
             /\ SyncRunning']_vars

\* C18 witness: a duplicate was refused and the run went on to its final flush with the
\* first copy still in the buffer.
C18_Witness ==
    /\ "db" \in Range(errors)
    /\ pc = "final"
    /\ bp.staging_buffer # <<>>

\* C19: in every reachable registry, update_document_status(h, n, s) on a known hash sets
\* num_chunks and status of that row and nothing else: the row is listed under s and under
\* no other status, every other column and every other row is unchanged.
C19_UpdateStatus ==
    \A h \in Hashes, n \in {0, MaxChunks}, s \in Statuses :
        document_exists(registry, h) =>
            LET r == update_document_status(registry, h, n, s)
            IN /\ Len(r) = Len(registry)
               /\ \A k \in 1..Len(registry) :
                      IF registry[k].content_hash = h
                      THEN r[k] = [registry[k] EXCEPT !.num_chunks = n, !.status = s]
                      ELSE r[k] = registry[k]
               /\ \E row \in Range(list_documents_by_status(r, s)) :
                      row.content_hash = h /\ row.num_chunks = n
               /\ \A t \in Statuses \ {s} :
                      \A row \in Range(list_documents_by_status(r, t)) : row.content_hash # h

\* C19 witness: the registry holds two rows, one updated to embedded and one pending.
C19_Witness ==
    /\ Len(registry) = 2
    /\ \E k \in 1..Len(registry) : registry[k].status = "embedded" /\ registry[k].num_chunks > 0
    /\ \E k \in 1..Len(registry) : registry[k].status = "pending"

\* C20: with a batch of 10 and two new files yielding 1 and 2 passages, no pending document
\* and no failure, the run reaches finalize with no flush done and the 3 passages buffered,
\* finalize makes one write, and both documents end embedded with num_chunks 1 and 2.
C20_Scenario ==
    [][(/\ pc = "final" /\ pc' = "idle"
        /\ config = SmallFilesConfig
        /\ Len(new_files) = 2 /\ {new_files[k].hash : k \in 1..2} = {1, 2}
        /\ pending_docs = <<>>
        /\ errors = <<>>
        /\ ~lastRun'.aborted) =>
          /\ bp.batch_count = 0
          /\ Len(bp.staging_buffer) = 3
          /\ index'[1] = Append(index[1], 1)
          /\ index'[2] = Append(index[2], 2)
          /\ \A h \in {1, 2} :
                 /\ StatusOf(registry', h) = "embedded"
                 /\ RowOf(registry', h).num_chunks = h]_vars

\* C20 witness: the run of the scenario has ended.
C20_Witness ==
    /\ SyncEnded /\ ~lastRun.aborted /\ lastRun.errs = {}
    /\ config = SmallFilesConfig
    /\ handed = {1, 2}
    /\ index[1] = <<1>> /\ index[2] = <<2>>
    /\ \A h \in {1, 2} : StatusOf(registry, h) = "embedded"

\* ---------------------------------------------------------------------------------------
\* Claims on the handle cache (SpecHandles)

\* the handles that are open (holding the lock they took) on the index of project p
OpenHandles(p) == {h \in 1..Len(clients) : clients[h].open /\ clients[h].project = p}

\* C11: in every state reachable through get_qdrant_client, close_qdrant_client, the three
\* clear-all functions and embed_directory_batched, at most one open, lock-holding handle
\* exists per project in the process.
C11_SingleHandle == \A p \in Projects : Cardinality(OpenHandles(p)) <= 1

\* the handles that exist, and the handles in the cache
AllHandles == 1..Len(clients)

CachedNow == {active_clients[q] : q \in Projects} \ {NoClient}

\* a step that is a call get_qdrant_client(p) which finds handle c cached
GetFinds(p, c) ==
    /\ lastOp'.op = "get"
    /\ lastOp'.project = p
    /\ active_clients[p] = c
    /\ c # NoClient

\* the call returned a handle opened by this call, open, of project p, and cached it
FreshReturned(p) ==
    LET r == lastOp'.result
    IN /\ ~lastOp'.raised
       /\ r \in 1..Len(clients') /\ r \notin AllHandles
       /\ clients'[r] = [project |-> p, open |-> TRUE]
       /\ active_clients'[p] = r

\* a cached handle that passes the liveness check is returned, nothing is opened and the
\* cache is as it was
C12_LiveReturned ==
    \A p \in Projects, c \in AllHandles :
        (GetFinds(p, c) /\ lastOp'.live) =>
            /\ lastOp'.result = c /\ ~lastOp'.raised
            /\ lastOp'.opens = <<>>
            /\ UNCHANGED <<active_clients, clients, lockOwner>>

\* C12 as stated: a cached handle that passes the liveness check is returned and no open
\* is attempted; one that fails it is closed and removed from the cache, and a freshly
\* opened handle is cached and returned; a handle that failed the check is not returned.
C12_LivenessRuleOriginal ==
    [][/\ C12_LiveReturned
       /\ \A p \in Projects, c \in AllHandles :
              (GetFinds(p, c) /\ ~lastOp'.live) =>
                  /\ ~clients'[c].open
                  /\ \A q \in Projects : active_clients'[q] # c
                  /\ FreshReturned(p)
                  /\ lastOp'.result # c]_vars

\* C12, amended: as stated, but of a handle that fails the liveness check the close is
\* attempted (it is closed when the close returns) and it is removed from the cache
\* whatever the close does; a freshly opened handle is cached and returned unless both
\* opens fail, and then the call raises and caches nothing for the project.
C12_LivenessRule ==
    [][/\ C12_LiveReturned
       /\ \A p \in Projects, c \in AllHandles :
              (GetFinds(p, c) /\ ~lastOp'.live) =>
                  /\ c \in lastOp'.tried
                  /\ c \notin lastOp'.raisedOn => ~clients'[c].open
                  /\ \A q \in Projects : active_clients'[q] # c
                  /\ IF lastOp'.opens[Len(lastOp'.opens)]
                     THEN FreshReturned(p)
                     ELSE /\ lastOp'.raised /\ lastOp'.opens = <<FALSE, FALSE>>
                          /\ active_clients'[p] = NoClient
                  /\ lastOp'.result # c]_vars

\* a call found a broken handle cached, its close raised, and a fresh handle was returned
C12_Witness ==
    /\ lastOp.op = "get" /\ ~lastOp.raised
    /\ lastOp.tried # {} /\ lastOp.raisedOn = lastOp.tried
    /\ lastOp.result \notin lastOp.tried
    /\ active_clients[lastOp.project] = lastOp.result

C14_Invalidate ==
    [][lastOp'.op = "close" =>
           /\ active_clients'[lastOp'.project] = NoClient
           /\ \A q \in Projects \ {lastOp'.project} :
                  /\ active_clients'[q] = active_clients[q]
                  /\ active_clients[q] # NoClient =>
                         clients'[active_clients[q]] = clients[active_clients[q]]]_vars

\* C15: after clear_qdrant_cache, force_close_all_clients or force_clear_all_qdrant_caches
\* returns, close has been attempted on every handle that was cached and the cache is
\* empty, also when closing some handle raises (a handle whose close returned is closed).
C15_InvalidateAll ==
    [][lastOp'.op = "invalidate_all" =>
           /\ CachedNow \subseteq lastOp'.tried
           /\ \A h \in CachedNow \ lastOp'.raisedOn : ~clients'[h].open
           /\ \A q \in Projects : active_clients'[q] = NoClient
           /\ ~lastOp'.raised]_vars

\* two handles were cached, the close of one of them raised, and the cache is empty
C15_Witness ==
    /\ lastOp.op = "invalidate_all"
    /\ Cardinality(lastOp.tried) = 2
    /\ Cardinality(lastOp.raisedOn) = 1
    /\ \A q \in Projects : active_clients[q] = NoClient

\* a step that is a run of the app script in which the project-change handling was reached
\* (the sidebar's get_qdrant_client did not raise) with a project selected that differs
\* from the recorded last selected one
SwitchRun ==
    /\ lastOp'.op \in {"project_change", "app_run"}
    /\ session_state.last_selected_project \notin {NoKey, lastOp'.project}

\* every cached handle is the handle of the project it is cached for, and the stored
\* db_client is a handle of the last selected project
HandlesOfOwnProject ==
    /\ \A p \in Projects :
           active_clients[p] # NoClient =>
               /\ active_clients[p] \in AllHandles
               /\ clients[active_clients[p]].project = p
    /\ session_state.db_client # NoClient =>
           /\ session_state.db_client \in AllHandles
           /\ clients[session_state.db_client].project = session_state.last_selected_project

C29_CachedOpen ==
    /\ \A p \in Projects : active_clients[p] # NoClient => clients[active_clients[p]].open
    /\ (lastOp.op = "get" /\ ~lastOp.raised) => clients[lastOp.result].open

\* ---------------------------------------------------------------------------------------
\* Claims on the order and the failures of a sync run (Spec)

PendingHashes == {pending_docs[k].content_hash : k \in 1..Len(pending_docs)}

\* the step hands a document to the accumulator
Hands == SyncRunning /\ nAdds' = nAdds + 1

\* C21: each content hash is handed to the accumulator at most once per sync run: no file
\* whose hash has a pending row is in the list of new files, a pending document is handed
\* without an insert, a new file is handed only with the insert of a hash that had no row,
\* and of new files with identical bytes one is inserted and handed.
C21_HandedOnce ==
    /\ [](SyncRunning =>
             /\ Cardinality(handed) = nAdds
             /\ \A k \in 1..Len(new_files) : new_files[k].hash \notin PendingHashes)
    /\ [][Hands =>
             /\ handed' # handed
             /\ pc = "pending" => (Len(registry') = Len(registry)
                                    /\ pending_docs[i].content_hash \in handed')
             /\ pc = "new" => (/\ ~document_exists(registry, new_files[i].hash)
                               /\ Len(registry') = Len(registry) + 1
                               /\ new_files[i].hash \in handed')]_vars

\* C21 witness: a run with a new file and a pending document whose file is in the folder
\* has handed both.
C21_Witness ==
    /\ pc = "final"
    /\ new_files # <<>> /\ pending_docs # <<>>
    /\ nAdds = 2
    /\ \A k \in 1..Len(pending_docs) : \E p \in Paths : fs[p] = pending_docs[k].content_hash

\* the new files of the run that were handed, and the errors that kept a new file from it
NewHanded == {k \in 1..Len(new_files) : new_files[k].hash \in handed}

NewFileErrors == {k \in 1..Len(errors) : errors[k] \in {"parse", "db"}}

\* C22: within one sync run every new file is dealt with (parsed, inserted and handed, or
\* skipped with a recorded error) before any pending document is handed: while the loop
\* over the new files runs no pending document has been handed, the run never returns to
\* that loop, and when a pending document is handed every new file has been handed or has
\* its error in the list.
C22_NewBeforePending ==
    /\ [](pc = "new" => handed \cap PendingHashes = {})
    /\ [][/\ pc = "new" => (handed' \cap PendingHashes = {} /\ Len(registry') >= Len(registry))
          /\ pc \in {"pending", "final"} => pc' # "new"
          /\ (Hands /\ pc = "pending") =>
                 /\ handed' \ handed \subseteq PendingHashes
                 /\ Cardinality(NewFileErrors) >= Len(new_files) - Cardinality(NewHanded)]_vars

\* C22 witness: a run with two new files of identical bytes and a pending document has
\* handed the first new file, refused the second, and then handed the pending document.
C22_Witness ==
    /\ pc = "final"
    /\ Len(new_files) = 2 /\ pending_docs # <<>>
    /\ "db" \in Range(errors)
    /\ PendingHashes \subseteq handed
    /\ handed \ PendingHashes # {}

\* the step deals with item i of the loop the run is in
LoopStep == pc \in {"new", "pending"} /\ <<pc, i>>' # <<pc, i>>

\* where the run goes after item i of the pending loop
AfterPending ==
    IF i < Len(pending_docs) THEN pc' = "pending" /\ i' = i + 1 ELSE pc' = "final" /\ i' = 0

\* C23: when the path of a pending row is not an existing file, the step records one error
\* for the document, hands nothing to the accumulator, leaves the registry (the row still
\* pending, its num_chunks as it was), the buffer and the index alone, and the run goes on
\* to the next pending document or to the final flush.
C23_MissingFile ==
    [][(LoopStep /\ pc = "pending" /\ fs[pending_docs[i].path] = NoFile) =>
          /\ errors' = Append(errors, "missing")
          /\ nAdds' = nAdds /\ handed' = handed /\ bp' = bp
          /\ processed_count' = processed_count
          /\ registry' = registry /\ index' = index
          /\ StatusOf(registry', pending_docs[i].content_hash) = "pending"
          /\ AfterPending]_vars

\* C23 witness: the file of the first pending document was missing, the next pending
\* document was handed and the run is at its final flush.
C23_Witness ==
    /\ pc = "final"
    /\ new_files = <<>> /\ Len(pending_docs) = 2
    /\ errors = <<"missing">>
    /\ handed = {pending_docs[2].content_hash}
    /\ StatusOf(registry, pending_docs[1].content_hash) = "pending"

\* where the run goes after item i of the loop it is in
AfterItem ==
    IF pc = "new" /\ i < Len(new_files) THEN pc' = "new" /\ i' = i + 1
    ELSE IF pc = "new" /\ pending_docs # <<>> THEN pc' = "pending" /\ i' = 1
    ELSE AfterPending

\* the step skipped its document: one error of the kind appended, no row inserted or
\* changed, nothing handed to the accumulator, and the run is at the next document
Skipped(kind) ==
    /\ errors' = Append(errors, kind)
    /\ registry' = registry /\ index' = index
    /\ nAdds' = nAdds /\ handed' = handed /\ bp' = bp
    /\ processed_count' = processed_count
    /\ AfterItem

\* C24: a parse failure of a new file inserts no row and hands nothing; a parse failure of
\* a pending document leaves its row (status and num_chunks) as it is; in both cases the
\* failure is added to the error list and the run proceeds to the next document. A new
\* file that is gone when it is parsed fails to parse; every step that appends a parse
\* error, and every loop step that hands nothing, is such a skip.
C24_ParseError ==
    [][LoopStep =>
          /\ (pc = "new" /\ fs[new_files[i].path] = NoFile) => Skipped("parse")
          /\ (Len(errors') > Len(errors) /\ errors'[Len(errors')] = "parse") => Skipped("parse")
          /\ nAdds' = nAdds => \E kind \in {"parse", "db", "missing"} : Skipped(kind)]_vars

\* C24 witness: a new file and a pending document both failed to parse; the new file has no
\* row, the pending document is still pending and the run is at its final flush.
C24_Witness ==
    /\ pc = "final"
    /\ Len(new_files) = 1 /\ Len(pending_docs) = 1
    /\ errors = <<"parse", "parse">>
    /\ ~document_exists(registry, new_files[1].hash)
    /\ StatusOf(registry, pending_docs[1].content_hash) = "pending"
    /\ fs[pending_docs[1].path] # NoFile

\* C28: over any sequence of sync runs on one project, with vector-write failures at any
\* flush and no registry failure, the passages of a content hash are successfully
\* written to the vector index at most once.
C28_NoDuplicateEmbedding == \A h \in Hashes : Len(index[h]) <= 1

\* C28 witness: a run has written a document while a document embedded by an earlier run,
\* its file still in the folder, was not handed again.
C28_Witness ==
    /\ SyncEnded
    /\ \E h \in handed : Len(index[h]) = 1 /\ StatusOf(registry, h) = "embedded"
    /\ \E h \in Hashes \ handed :
           /\ Len(index[h]) = 1 /\ StatusOf(registry, h) = "embedded"
           /\ \E p \in Paths : fs[p] = h

\* ---------------------------------------------------------------------------------------
\* Claims on the accumulator (SpecBatch)

\* the step is an add_document call; the passages it was given, tagged with its hash
AddCall == lastCall'.op = "add" /\ nAdds' = nAdds + 1

GivenPassages ==
    LET d == addedDocs'[Len(addedDocs')]
    IN [k \in 1..d.count |-> [doc |-> nAdds + 1, idx |-> k, content_hash |-> d.hash]]

\* C25: add_document appends all given passages and then flushes exactly when the buffer
\* holds at least batch_size passages; below batch_size it returns none and the buffer
\* keeps every appended passage; when it has returned or raised the buffer holds fewer
\* than batch_size passages.
C25_FlushThreshold ==
    [][AddCall =>
          LET appended == bp.staging_buffer \o GivenPassages
              full == Len(appended) >= bp.batch_size
          IN /\ full <=> lastCall'.attempted
             /\ full => /\ ~lastCall'.none
                        /\ attempts'[Len(attempts')].sent = appended
                        /\ Len(attempts') = Len(attempts) + 1
                        /\ bp'.staging_buffer = <<>>
             /\ ~full => /\ lastCall'.none /\ ~lastCall'.raised
                         /\ attempts' = attempts
                         /\ bp'.staging_buffer = appended
             /\ Len(bp'.staging_buffer) < bp'.batch_size]_vars

\* C25 witness: an add brought a non-empty buffer to exactly batch_size passages, and the
\* buffer was flushed.
C25_Witness ==
    /\ lastCall.op = "add" /\ lastCall.attempted
    /\ Len(addedDocs) >= 2
    /\ Len(attempts[Len(attempts)].sent) = bp.batch_size
    /\ Len(attempts[Len(attempts)].sent) > addedDocs[Len(addedDocs)].count
    /\ bp.staging_buffer = <<>>

\* the passages of add_document call d that write a carries
PassagesIn(a, d) == {c \in Range(attempts[a].sent) : c.doc = d}

\* C27: every write sent to the index holds all passages of an add_document call or none
\* of them, and every (hash, count) pair returned comes from a successful write that
\* held all count passages of an add_document call made with that hash and count.
C27_NoSplit ==
    /\ \A a \in 1..Len(attempts), d \in 1..Len(addedDocs) :
           Cardinality(PassagesIn(a, d)) \in {0, addedDocs[d].count}
    /\ \A u \in returned :
           \E a \in 1..Len(attempts), d \in 1..Len(addedDocs) :
               /\ attempts[a].ok
               /\ addedDocs[d] = [hash |-> u[1], count |-> u[2]]
               /\ Cardinality(PassagesIn(a, d)) = u[2]
               /\ \A c \in PassagesIn(a, d) : c.content_hash = u[1]

\* C27 witness: one successful write carried the passages of two documents, more than
\* batch_size in all, and both pairs were returned.
C27_Witness ==
    /\ Len(attempts) = 1 /\ attempts[1].ok
    /\ Len(addedDocs) = 2 /\ addedDocs[1].hash # addedDocs[2].hash
    /\ Len(attempts[1].sent) > bp.batch_size
    /\ Cardinality(returned) = 2

\* the writes to the index that succeeded
SucceededWrites == {k \in 1..Len(attempts) : attempts[k].ok}

\* a step that is a flush_batch or finalize call on an empty buffer
EmptyFlush ==
    /\ lastCall'.op \in {"flush", "finalize"}
    /\ bp.staging_buffer = <<>>

\* a step that is a call whose write to the index failed
FailedWrite ==
    /\ Len(attempts') = Len(attempts) + 1
    /\ ~attempts'[Len(attempts')].ok

\* C30: after any sequence of add_document, flush_batch and finalize calls batch_count is
\* the number of writes to the index that succeeded; a failed write, and a flush or
\* finalize on an empty buffer, leave batch_count unchanged, and the empty case makes no
\* call to the index and returns an empty list without raising.
C30_BatchCounter ==
    /\ [](bp.batch_count = Cardinality(SucceededWrites))
    /\ [][/\ FailedWrite => bp'.batch_count = bp.batch_count
          /\ EmptyFlush =>
                 /\ bp'.batch_count = bp.batch_count
                 /\ attempts' = attempts
                 /\ returned' = returned
                 /\ ~lastCall'.attempted /\ ~lastCall'.raised]_vars

\* C30 witness: a write failed, a write succeeded, and the last call was a flush or a
\* finalize on an empty buffer.
C30_Witness ==
    /\ bp.batch_count >= 1
    /\ \E k \in 1..Len(attempts) : ~attempts[k].ok
    /\ lastCall.op \in {"flush", "finalize"} /\ ~lastCall.attempted

\* ---------------------------------------------------------------------------------------
\* Claims on the chunker (SpecChunk)

\* C26: adaptive_chunk_documents picks its split parameters from the token count t with
\* half-open boundaries: t < 300 gives exactly one passage, the whole document;
\* 300 <= t < 800 splits with size 400 and overlap 100; 800 <= t < 2000 with 600 and 120;
\* t >= 2000 with 800 and 150.
C26_ChunkTiers ==
    out_docs # NotChunked =>
        LET t == token_count
        IN /\ t < 300 => out_docs = [kind |-> "whole", passages |-> <<t>>]
           /\ (300 <= t /\ t < 800) =>
                  (out_docs.kind = "split" /\ out_docs.chunk_size = 400
                   /\ out_docs.chunk_overlap = 100)
           /\ (800 <= t /\ t < 2000) =>
                  (out_docs.kind = "split" /\ out_docs.chunk_size = 600
                   /\ out_docs.chunk_overlap = 120)
           /\ t >= 2000 =>
                  (out_docs.kind = "split" /\ out_docs.chunk_size = 800
                   /\ out_docs.chunk_overlap = 150)
           /\ out_docs.kind = "split" => out_docs.tokens = t

\* C26 witness: a document of exactly 300 tokens was split with the 400/100 parameters.
C26_Witness ==
    /\ token_count = 300
    /\ out_docs # NotChunked
    /\ out_docs.kind = "split" /\ out_docs.chunk_size = 400

====
